---------------------------- MODULE Spec2Model ----------------------------
(***************************************************************************)
(* 84VID decoder and player (decoder/src/main.c) as a state machine.       *)
(*                                                                         *)
(* The state is the program's globals (video_bin, the three header bytes,  *)
(* queued_rectangles), the locals of process_next_frame and begin_decode   *)
(* that live across loop iterations, the control position pc, and the      *)
(* program's observable output: the list of gfx_FillRectangle calls, the   *)
(* list of usleep calls and main's return value.                           *)
(*                                                                         *)
(* Bytes are numbers 0..255.  C index i of video_bin is video[i + 1].      *)
(* clock() is read in milliseconds relative to the start_time in force;    *)
(* every read may return the previous value or a later one.                *)
(***************************************************************************)
EXTENDS Integers, Sequences, FiniteSets, TLC

VARIABLES
    video,                  \* video_bin[0 .. video_bin_len - 1]
    video_fps,              \* global, main.c:63
    video_version,          \* global, main.c:64
    video_scale_factor,     \* global, main.c:65
    queued_rectangles,      \* global, main.c:107
    pc,                     \* control position
    valid_vid,              \* main: result of retrieve_data_from_video
    last_data_index,        \* the cursor (main: data_index)
    time_per_frame_ms,      \* process_next_frame: its budget parameter
    pnf_rect_data_index,    \* process_next_frame: rect_data_index
    rect_queue_index,       \* process_next_frame: rect_queue_index
    queue_full,             \* process_next_frame: queue_full
    end_of_frame,           \* process_next_frame: end_of_frame
    pass_start,             \* value of *last_data_index on entry of the pass
    bd_time_per_frame_ms,   \* begin_decode: time_per_frame_ms
    bd_rect_data_index,     \* begin_decode: rect_data_index
    rectangle,              \* begin_decode: rectangle
    data,                   \* begin_decode: data (last byte read live)
    cycle_start,            \* value of last_data_index at the top of the cycle
    after_pass,             \* a pass has returned since the last frame end
    elapsed,                \* last clock() reading minus start_time, in ms
    calls,                  \* gfx_FillRectangle calls issued so far
    sleeps,                 \* usleep calls issued so far (microseconds)
    exit_code               \* main's return value as a one-element sequence,
                            \* empty while main has not returned

vars == << video, video_fps, video_version, video_scale_factor,
           queued_rectangles, pc, valid_vid, last_data_index,
           time_per_frame_ms, pnf_rect_data_index, rect_queue_index,
           queue_full, end_of_frame, pass_start, bd_time_per_frame_ms,
           bd_rect_data_index, rectangle, data, cycle_start, after_pass,
           elapsed, calls, sleeps, exit_code >>

---------------------------------------------------------------------------
(* Program constants *)

RECTANGLE_QUEUE_COUNT == 32

FRAME_MARK == 255

END_MARK == 254

FIRST_DATA_INDEX == 9

PREROLL_BUDGET_MS == 500

VIEWPORT_OFFSET == 40

MAX_FPS == 63

MAX_SCALE == 6

FORMAT_VERSION == 1

EMPTY_SLOT == -1

Magic == << 56, 52, 86, 73, 68 >>      \* '8' '4' 'V' 'I' 'D'

NoExit == << >>

---------------------------------------------------------------------------
(* Bounds of the model *)

\* frames per video in the family of short videos
MaxFrames == 2

\* data bytes per frame in the family of short videos
MaxFrameBytes == 8

\* data bytes per video in the family of short videos
MaxDataBytes == 9

\* records beyond the queue capacity in the family of long-frame videos
MaxQueueOver == 1

\* bytes past the end of video_bin the model follows an out-of-bounds cursor
MaxOverrun == 3

\* one clock step, in ms
ClockTick == 200

\* the clock reading at which every budget of the program has expired
ClockCap == 1000

Min(a, b) == IF a < b THEN a ELSE b

Abs(a) == IF a < 0 THEN -a ELSE a

---------------------------------------------------------------------------
(* The videos the model plays: video_bin of sample.h *)

\* the k-th data byte of a video's body (k counted from 0): all distinct,
\* none a marker
DataByte(k) == k

FrameData(first, n) == [i \in 1..n |-> DataByte(first + i - 1)]

\* frames is a sequence of frame sizes in bytes; each frame is preceded by
\* 0xFF and the last one is followed by 0xFE.  No frame at all gives the
\* body <<0xFE>>: the 9-byte video.
RECURSIVE BodyFrom(_, _)
BodyFrom(frames, k) ==
    IF frames = << >> THEN << END_MARK >>
    ELSE << FRAME_MARK >> \o FrameData(k, Head(frames))
         \o BodyFrom(Tail(frames), k + Head(frames))

Header(fps, version, scale) == Magic \o << fps, version, scale >>

MkVideo(h, frames) == h \o BodyFrom(frames, 0)

RECURSIVE Sum(_)
Sum(f) == IF f = << >> THEN 0 ELSE Head(f) + Sum(Tail(f))

ShortFrames ==
    { f \in UNION { [1..n -> 0..MaxFrameBytes] : n \in 0..MaxFrames } :
        Sum(f) <= MaxDataBytes }

BigSizes == { 4 * (RECTANGLE_QUEUE_COUNT + j) : j \in 0..MaxQueueOver }

LongFrames ==
    { << b >> : b \in BigSizes }
    \cup { << b, 4 >> : b \in BigSizes }
    \cup { << 4, b >> : b \in BigSizes }

\* two headers retrieve_data_from_video accepts: the slowest frame rate
\* with the largest scale, the fastest with the smallest
SlowHeader == Header(1, FORMAT_VERSION, MAX_SCALE)

FastHeader == Header(MAX_FPS, FORMAT_VERSION, 1)

\* headers it rejects, one per check
BadHeaders ==
    { << 56, 52, 86, 73, 69, 30, FORMAT_VERSION, 2 >>,
      Header(0, FORMAT_VERSION, 2),
      Header(MAX_FPS + 1, FORMAT_VERSION, 2),
      Header(30, FORMAT_VERSION + 1, 2),
      Header(30, FORMAT_VERSION, 0),
      Header(30, FORMAT_VERSION, MAX_SCALE + 1) }

PlayVideos ==
    { MkVideo(SlowHeader, f) : f \in ShortFrames \cup LongFrames }
    \cup { MkVideo(FastHeader, f) : f \in { g \in ShortFrames : Len(g) <= 1 } }

\* a good header whose stream does not end with 0xFE
NoTrailerVideos ==
    { Header(30, FORMAT_VERSION, 2) \o << FRAME_MARK, 1, 2, 3, 4 >>,
      Header(30, FORMAT_VERSION, 2) \o << FRAME_MARK, 1, 2, 3, 4, FRAME_MARK >>,
      Header(30, FORMAT_VERSION, 2) }

BadVideos ==
    { MkVideo(h, << 4 >>) : h \in BadHeaders } \cup NoTrailerVideos

\* one-record videos at every scale, the record drawn from Coords
Coords == { 0, 2, 253 }

RectVideos ==
    { Header(1, FORMAT_VERSION, s) \o << FRAME_MARK, x, y, x2, y2, END_MARK >> :
        s \in 1..MAX_SCALE, x \in Coords, y \in Coords, x2 \in Coords,
        y2 \in Coords }

Videos == PlayVideos \cup RectVideos \cup BadVideos

video_bin_len == Len(video)

---------------------------------------------------------------------------
(* retrieve_data_from_video, main.c:67-95 *)

MagicOk(v) ==
    ~ (v[1] # 56 \/ v[2] # 52 \/ v[3] # 86 \/ v[4] # 73 \/ v[5] # 68)

FpsOk_OffByOne(fps) == ~ (fps >= MAX_FPS \/ fps = 0)

FpsOk(fps) == ~ (fps > MAX_FPS \/ fps = 0)

VersionOk(version) == ~ (version # FORMAT_VERSION)

ScaleOk(scale) == ~ (scale > MAX_SCALE \/ scale = 0)

TrailerOk(v) == ~ (v[Len(v) - 1 + 1] # END_MARK)

\* g is the three globals before the call; the result holds the return
\* value and the globals after it (each global is assigned just before
\* its own check)
retrieve_data_from_video(v, g) ==
    IF ~ MagicOk(v) THEN
        [ok |-> FALSE, fps |-> g.fps, version |-> g.version, scale |-> g.scale]
    ELSE IF ~ FpsOk(v[6]) THEN
        [ok |-> FALSE, fps |-> v[6], version |-> g.version, scale |-> g.scale]
    ELSE IF ~ VersionOk(v[7]) THEN
        [ok |-> FALSE, fps |-> v[6], version |-> v[7], scale |-> g.scale]
    ELSE IF ~ ScaleOk(v[8]) THEN
        [ok |-> FALSE, fps |-> v[6], version |-> v[7], scale |-> v[8]]
    ELSE
        [ok |-> TrailerOk(v), fps |-> v[6], version |-> v[7], scale |-> v[8]]

---------------------------------------------------------------------------
(* The queue and the two drawing paths *)

Rect(x, y, x2, y2) == [x |-> x, y |-> y, x2 |-> x2, y2 |-> y2]

\* a global array of C: all zero before init_render_queue has run
ZeroQueue == [i \in 0..(RECTANGLE_QUEUE_COUNT - 1) |-> Rect(0, 0, 0, 0)]

\* a reset that zeroes the slots instead of marking them empty
init_render_queue_Zeroed ==
    [i \in 0..(RECTANGLE_QUEUE_COUNT - 1) |-> Rect(0, 0, 0, 0)]

\* a reset that marks the first slot only
init_render_queue_FirstOnly ==
    [i \in 0..(RECTANGLE_QUEUE_COUNT - 1) |->
        IF i = 0 THEN Rect(EMPTY_SLOT, EMPTY_SLOT, EMPTY_SLOT, EMPTY_SLOT)
        ELSE Rect(0, 0, 0, 0)]

init_render_queue ==
    [i \in 0..(RECTANGLE_QUEUE_COUNT - 1) |->
        Rect(EMPTY_SLOT, EMPTY_SLOT, EMPTY_SLOT, EMPTY_SLOT)]

\* one gfx_FillRectangle call: what was drawn, by whom
Fill(kind, src, x, y, w, h) ==
    [kind |-> kind, src |-> src, x |-> x, y |-> y, w |-> w, h |-> h]

\* a switch that stores the first two components the wrong way round
QueueStore_Swapped(r, idx, d, s) ==
    CASE idx = 0 -> [r EXCEPT !.y = d * s]
      [] idx = 1 -> [r EXCEPT !.x = d * s]
      [] idx = 2 -> [r EXCEPT !.x2 = d * s]
      [] idx = 3 -> [r EXCEPT !.y2 = d * s]
      [] OTHER -> r

\* the switch of main.c:143-149 applied to one slot
QueueStore(r, idx, d, s) ==
    CASE idx = 0 -> [r EXCEPT !.x = d * s]
      [] idx = 1 -> [r EXCEPT !.y = d * s]
      [] idx = 2 -> [r EXCEPT !.x2 = d * s]
      [] idx = 3 -> [r EXCEPT !.y2 = d * s]
      [] OTHER -> r

\* a write to queued_rectangles[qi]; a slot past the array is memory the
\* array does not own, recorded as a new element of the function
QueueWrite(q, qi, idx, d, s) ==
    IF qi \in DOMAIN q
    THEN [q EXCEPT ![qi] = QueueStore(q[qi], idx, d, s)]
    ELSE (qi :> QueueStore(Rect(0, 0, 0, 0), idx, d, s)) @@ q

QueueFillCall_NoClamp(r, s) ==
    Fill("rect", "queue", r.x + VIEWPORT_OFFSET, r.y,
         Abs(r.x2 - r.x), Abs(r.y2 - r.y))

\* main.c:205-216
QueueFillCall(r, s) ==
    LET x == r.x + VIEWPORT_OFFSET
        x2 == r.x2 + VIEWPORT_OFFSET
        width == Abs(x2 - x)
        height == Abs(r.y2 - r.y)
    IN Fill("rect", "queue", x, r.y,
            IF width = 0 THEN s ELSE width,
            IF height = 0 THEN s ELSE height)

\* the loop of process_rectangle_queue from slot i on, main.c:201-222
RECURSIVE FlushFrom(_, _, _)
FlushFrom(q, i, s) ==
    IF i < RECTANGLE_QUEUE_COUNT /\ q[i].x # EMPTY_SLOT
    THEN << QueueFillCall(q[i], s) >> \o FlushFrom(q, i + 1, s)
    ELSE << >>

process_rectangle_queue(q, s) == FlushFrom(q, 0, s)

\* the switch of main.c:275-281
LiveStore(r, idx, d, s) ==
    CASE idx = 0 -> [r EXCEPT !.x = d * s]
      [] idx = 1 -> [r EXCEPT !.y = d * s]
      [] idx = 2 -> [r EXCEPT !.x2 = d * s]
      [] idx = 3 -> [r EXCEPT !.y2 = d * s]
      [] OTHER -> r

\* main.c:289-290: the struct after both x values were moved
LiveOffset(r) ==
    [r EXCEPT !.x = @ + VIEWPORT_OFFSET, !.x2 = @ + VIEWPORT_OFFSET]

\* main.c:292-300, r being the struct after LiveOffset
LiveFillCall(r, s) ==
    LET width == Abs(r.x2 - r.x)
        height == Abs(r.y2 - r.y)
    IN Fill("rect", "live", r.x, r.y,
            IF width = 0 THEN s ELSE width,
            IF height = 0 THEN s ELSE height)

---------------------------------------------------------------------------
(* Reading video_bin and the clock *)

\* what a byte read out of bounds may return
OobBytes == { 1, END_MARK, FRAME_MARK }

\* video_bin[i]: the byte, or any byte when i is past the array
ReadSet(i) == IF i < Len(video) THEN { video[i + 1] } ELSE OobBytes

\* the model follows the cursor up to MaxOverrun bytes past the array
Followed(i) == i < Len(video) + MaxOverrun

\* how far one clock() reading may lie after the previous one
ClockReads == { 0, ClockTick, ClockCap }

Tick(e, d) == Min(e + d, ClockCap)

\* main.c:140 and main.c:269
IsMarker(b) == b = END_MARK \/ b = FRAME_MARK

QueueIsFull_Early(rqi) == rqi >= RECTANGLE_QUEUE_COUNT - 1

QueueIsFull_Late(rqi) == rqi > RECTANGLE_QUEUE_COUNT

\* main.c:158
QueueIsFull(rqi) == rqi >= RECTANGLE_QUEUE_COUNT

\* main.c:135
MayRead(full, eof) == full = FALSE /\ eof = FALSE

BudgetSpent_Early(off_time) == off_time <= ClockTick

\* main.c:175
BudgetSpent(off_time) == off_time <= 0

Rollback_Always(idx, rdi) == idx - rdi

Rollback_Twice(idx, rdi) == IF rdi # 3 THEN idx - 2 * rdi ELSE idx

\* main.c:177-179
Rollback(idx, rdi) == IF rdi # 3 THEN idx - rdi ELSE idx

\* main.c:310-313
AfterMarker(b, idx) == IF b = END_MARK THEN idx ELSE idx + 1

\* main.c:234
FrameBudget(fps) == 1000 \div fps

HasOffTime_OrNone(off_time) == off_time >= 0

\* main.c:323
HasOffTime(off_time) == off_time > 0

\* a begin_decode that draws no border
Borders_None == << >>

Borders ==
    << Fill("border", "begin", 0, 0, 40, 240),
       Fill("border", "begin", 280, 0, 40, 240) >>

Canvas == Fill("clear", "begin", 40, 0, 240, 240)

---------------------------------------------------------------------------
(* The program *)

InitWith(V) ==
    /\ video \in V
    /\ video_fps = 0
    /\ video_version = 0
    /\ video_scale_factor = 0
    /\ queued_rectangles = ZeroQueue
    /\ pc = "main"
    /\ valid_vid = FALSE
    /\ last_data_index = 0
    /\ time_per_frame_ms = 0
    /\ pnf_rect_data_index = 0
    /\ rect_queue_index = 0
    /\ queue_full = FALSE
    /\ end_of_frame = FALSE
    /\ pass_start = 0
    /\ bd_time_per_frame_ms = 0
    /\ bd_rect_data_index = 0
    /\ rectangle = Rect(0, 0, 0, 0)
    /\ data = 0
    /\ cycle_start = 0
    /\ after_pass = FALSE
    /\ elapsed = 0
    /\ calls = << >>
    /\ sleeps = << >>
    /\ exit_code = NoExit

Init == InitWith(Videos)

PassVars ==
    << time_per_frame_ms, pnf_rect_data_index, rect_queue_index, queue_full,
       end_of_frame, pass_start >>

LiveVars ==
    << bd_time_per_frame_ms, bd_rect_data_index, rectangle, data, cycle_start >>

NextPrompt_Unchecked(ok) == "play_prompt"

\* main.c:347-358
NextPrompt(ok) == IF ok THEN "play_prompt" ELSE "bad_prompt"

HeaderVars == << video_fps, video_version, video_scale_factor >>

\* main.c:341-352 and 359-360: validate, then show one of the two prompts
MainValidate ==
    /\ pc = "main"
    /\ LET r == retrieve_data_from_video(video,
                    [fps |-> video_fps, version |-> video_version,
                     scale |-> video_scale_factor])
       IN /\ valid_vid' = r.ok
          /\ video_fps' = r.fps
          /\ video_version' = r.version
          /\ video_scale_factor' = r.scale
          /\ pc' = NextPrompt(r.ok)
    /\ UNCHANGED << video, queued_rectangles, last_data_index, PassVars,
                    LiveVars, after_pass, elapsed, calls, sleeps, exit_code >>

\* main.c:353-355: the key press on the error screen, then return -1
BadVideoKey ==
    /\ pc = "bad_prompt"
    /\ exit_code' = << -1 >>
    /\ pc' = "exited"
    /\ UNCHANGED << video, HeaderVars, queued_rectangles, valid_vid,
                    last_data_index, PassVars, LiveVars, after_pass, elapsed,
                    calls, sleeps >>

\* main.c:361-364 and 187-194: the key press, init_render_queue, and
\* prerender_first_frame up to its call of process_next_frame
PlayKey ==
    /\ pc = "play_prompt"
    /\ queued_rectangles' = init_render_queue
    /\ last_data_index' = FIRST_DATA_INDEX
    /\ elapsed' = 0
    /\ time_per_frame_ms' = PREROLL_BUDGET_MS
    /\ pnf_rect_data_index' = 0
    /\ rect_queue_index' = 0
    /\ queue_full' = FALSE
    /\ end_of_frame' = FALSE
    /\ pass_start' = FIRST_DATA_INDEX
    /\ pc' = "preroll"
    /\ UNCHANGED << video, HeaderVars, valid_vid, LiveVars, after_pass,
                    calls, sleeps, exit_code >>

\* main.c:133-184: one iteration of the loop of process_next_frame, b the
\* byte read (if any) and d the clock's advance; on budget expiry the pass
\* returns, to main (pre-roll) or to the top of begin_decode's loop (idle)
PrefetchIter(b, d) ==
    LET reading == MayRead(queue_full, end_of_frame)
        isdata == reading /\ ~ IsMarker(b)
        rdi1 == IF isdata THEN pnf_rect_data_index + 1 ELSE pnf_rect_data_index
        complete == isdata /\ rdi1 >= 4
        rdi2 == IF complete THEN 0 ELSE rdi1
        rqi2 == IF complete THEN rect_queue_index + 1 ELSE rect_queue_index
        idx2 == IF isdata THEN last_data_index + 1 ELSE last_data_index
        e2 == Tick(elapsed, d)
        off_time == time_per_frame_ms - e2
        expired == BudgetSpent(off_time)
    IN /\ pc \in { "preroll", "idle" }
       /\ reading => Followed(last_data_index)
       /\ queued_rectangles' =
             IF isdata
             THEN QueueWrite(queued_rectangles, rect_queue_index,
                             pnf_rect_data_index, b, video_scale_factor)
             ELSE queued_rectangles
       /\ pnf_rect_data_index' = rdi2
       /\ rect_queue_index' = rqi2
       /\ queue_full' = IF complete /\ QueueIsFull(rqi2) THEN TRUE ELSE queue_full
       /\ end_of_frame' = IF reading /\ ~ isdata THEN TRUE ELSE end_of_frame
       /\ elapsed' = e2
       /\ last_data_index' = IF expired THEN Rollback(idx2, rdi2) ELSE idx2
       /\ pc' = IF ~ expired THEN pc
                ELSE IF pc = "preroll" THEN "begin_decode" ELSE "cycle"
       /\ after_pass' = IF expired THEN TRUE ELSE after_pass
       /\ UNCHANGED << video, HeaderVars, valid_vid, time_per_frame_ms,
                       pass_start, LiveVars, calls, sleeps, exit_code >>

\* main.c:365 and 228-241: begin_decode up to its loop
BeginDecode ==
    /\ pc = "begin_decode"
    /\ bd_time_per_frame_ms' = FrameBudget(video_fps)
    /\ calls' = calls \o Borders
    /\ pc' = "cycle"
    /\ UNCHANGED << video, HeaderVars, queued_rectangles, valid_vid,
                    last_data_index, PassVars, bd_rect_data_index, rectangle,
                    data, cycle_start, after_pass, elapsed, sleeps,
                    exit_code >>

\* main.c:244-259: the top of a frame cycle
CycleStart ==
    /\ pc = "cycle"
    /\ elapsed' = 0
    /\ calls' = Append(calls, Canvas)
    /\ bd_rect_data_index' = 0
    /\ rectangle' = Rect(0, 0, 0, 0)
    /\ cycle_start' = last_data_index
    /\ pc' = "live"
    /\ UNCHANGED << video, HeaderVars, queued_rectangles, valid_vid,
                    last_data_index, PassVars, bd_time_per_frame_ms, data,
                    after_pass, sleeps, exit_code >>

\* main.c:260-306: one iteration of the live decoding loop, b the byte read
LiveIter(b) ==
    LET flush == queued_rectangles[0].x # EMPTY_SLOT
        flushed == IF flush
                   THEN process_rectangle_queue(queued_rectangles,
                                                video_scale_factor)
                   ELSE << >>
        r1 == LiveStore(rectangle, bd_rect_data_index, b, video_scale_factor)
        draw == bd_rect_data_index + 1 >= 4
        r2 == IF draw THEN LiveOffset(r1) ELSE r1
    IN /\ pc = "live"
       /\ Followed(last_data_index)
       /\ queued_rectangles' =
             IF flush THEN init_render_queue ELSE queued_rectangles
       /\ data' = b
       /\ IF IsMarker(b)
          THEN /\ pc' = "frame_end"
               /\ calls' = calls \o flushed
               /\ UNCHANGED << rectangle, bd_rect_data_index, last_data_index >>
          ELSE /\ pc' = "live"
               /\ rectangle' = r2
               /\ bd_rect_data_index' = IF draw THEN 0 ELSE bd_rect_data_index + 1
               /\ calls' = calls \o flushed \o
                     (IF draw THEN << LiveFillCall(r2, video_scale_factor) >>
                      ELSE << >>)
               /\ last_data_index' = last_data_index + 1
       /\ UNCHANGED << video, HeaderVars, valid_vid, PassVars,
                       bd_time_per_frame_ms, cycle_start, after_pass, elapsed,
                       sleeps, exit_code >>

\* main.c:308-335: after the frame's marker, d the clock's advance: step
\* over 0xFF, then start an idle pass, sleep, or go on
FrameEnd(d) ==
    LET end_of_file == data = END_MARK
        idx1 == AfterMarker(data, last_data_index)
        e1 == Tick(elapsed, d)
        off_time == bd_time_per_frame_ms - e1
        prefetch == HasOffTime(off_time) /\ ~ end_of_file
    IN /\ pc = "frame_end"
       /\ last_data_index' = idx1
       /\ elapsed' = e1
       /\ sleeps' = IF HasOffTime(off_time) /\ end_of_file
                    THEN Append(sleeps, off_time * 1000) ELSE sleeps
       /\ time_per_frame_ms' =
             IF prefetch THEN bd_time_per_frame_ms ELSE time_per_frame_ms
       /\ pnf_rect_data_index' = IF prefetch THEN 0 ELSE pnf_rect_data_index
       /\ rect_queue_index' = IF prefetch THEN 0 ELSE rect_queue_index
       /\ queue_full' = IF prefetch THEN FALSE ELSE queue_full
       /\ end_of_frame' = IF prefetch THEN FALSE ELSE end_of_frame
       /\ pass_start' = IF prefetch THEN idx1 ELSE pass_start
       /\ pc' = IF end_of_file THEN "decoded"
                ELSE IF prefetch THEN "idle" ELSE "cycle"
       /\ after_pass' = FALSE
       /\ UNCHANGED << video, HeaderVars, queued_rectangles, valid_vid,
                       LiveVars, calls, exit_code >>

\* main.c:368-370
MainReturn ==
    /\ pc = "decoded"
    /\ exit_code' = << 0 >>
    /\ pc' = "exited"
    /\ UNCHANGED << video, HeaderVars, queued_rectangles, valid_vid,
                    last_data_index, PassVars, LiveVars, after_pass, elapsed,
                    calls, sleeps >>

\* a read further past video_bin than the model follows
CursorLost ==
    /\ \/ pc = "live"
       \/ pc \in { "preroll", "idle" } /\ MayRead(queue_full, end_of_frame)
    /\ ~ Followed(last_data_index)
    /\ pc' = "lost"
    /\ UNCHANGED << video, HeaderVars, queued_rectangles, valid_vid,
                    last_data_index, PassVars, LiveVars, after_pass, elapsed,
                    calls, sleeps, exit_code >>

\* the byte a pass reads at the cursor; a pass that may not read reads none
PassReads ==
    IF MayRead(queue_full, end_of_frame) THEN ReadSet(last_data_index)
    ELSE { 0 }

Next ==
    \/ MainValidate
    \/ BadVideoKey
    \/ PlayKey
    \/ \E b \in PassReads, d \in ClockReads : PrefetchIter(b, d)
    \/ BeginDecode
    \/ CycleStart
    \/ \E b \in ReadSet(last_data_index) : LiveIter(b)
    \/ \E d \in ClockReads : FrameEnd(d)
    \/ MainReturn
    \/ CursorLost

Spec == Init /\ [][Next]_vars

---------------------------------------------------------------------------
(* retrieve_data_from_video on its own: every combination of right and wrong
   header bytes and trailers, run through main's validation and error exit *)

MagicBytes ==
    { << a, b, c, d, e >> : a \in { 56, 57 }, b \in { 52, 0 }, c \in { 86, 118 },
                            d \in { 73, 74 }, e \in { 68, 255 } }

Tails == { << FRAME_MARK, END_MARK >>, << FRAME_MARK, 0 >>,
           << FRAME_MARK, 1, 2, 3, 4, FRAME_MARK >>, << END_MARK >>, << >> }

HeaderVideos ==
    { m \o << fps, version, scale >> \o t :
        m \in MagicBytes, fps \in { 0, 1, MAX_FPS, MAX_FPS + 1, 255 },
        version \in { 0, FORMAT_VERSION, FORMAT_VERSION + 1 },
        scale \in { 0, 1, MAX_SCALE, MAX_SCALE + 1, END_MARK }, t \in Tails }

InitValidate == InitWith(HeaderVideos)

NextValidate == MainValidate \/ BadVideoKey

SpecValidate == InitValidate /\ [][NextValidate]_vars

---------------------------------------------------------------------------
(* What the file format says a video holds, read off the bytes alone *)

ByteAt(i) == video[i + 1]

\* the video has a byte at index 9 or later that is 0xFE
HasEnd == \E i \in FIRST_DATA_INDEX..(Len(video) - 1) : ByteAt(i) = END_MARK

\* index of the first 0xFE at index >= 9
FirstEnd ==
    CHOOSE i \in FIRST_DATA_INDEX..(Len(video) - 1) :
        /\ ByteAt(i) = END_MARK
        /\ \A j \in FIRST_DATA_INDEX..(i - 1) : ByteAt(j) # END_MARK

\* number of bytes in lo..hi that are no marker
DataCount(lo, hi) ==
    Cardinality({ j \in lo..hi : ByteAt(j) # END_MARK /\ ByteAt(j) # FRAME_MARK })

\* every frame holds a whole number of 4-byte records
WholeFrames ==
    /\ HasEnd
    /\ ByteAt(FIRST_DATA_INDEX - 1) = FRAME_MARK
    /\ \A i \in FIRST_DATA_INDEX..FirstEnd :
          (ByteAt(i) = END_MARK \/ ByteAt(i) = FRAME_MARK)
              => DataCount(FIRST_DATA_INDEX, i - 1) % 4 = 0

\* the data bytes of the body, markers left out, in stream order
BodyData ==
    SelectSeq(SubSeq(video, FIRST_DATA_INDEX + 1, FirstEnd + 1),
              LAMBDA b : b # END_MARK /\ b # FRAME_MARK)

\* the fill call the format asks for a raw record: <<x, y, w, h>>
ExpectedFill(x, y, x2, y2, s) ==
    << x * s + VIEWPORT_OFFSET, y * s,
       IF x # x2 THEN Abs(x2 - x) * s ELSE s,
       IF y # y2 THEN Abs(y2 - y) * s ELSE s >>

\* the fill calls of the stream's records, in stream order
ExpectedFills ==
    [r \in 1..(Len(BodyData) \div 4) |->
        ExpectedFill(BodyData[4 * r - 3], BodyData[4 * r - 2],
                     BodyData[4 * r - 1], BodyData[4 * r],
                     ByteAt(7))]

\* the fill call expected for the record whose first byte is at index i
ExpectedAt(i) ==
    ExpectedFill(ByteAt(i), ByteAt(i + 1), ByteAt(i + 2), ByteAt(i + 3),
                 ByteAt(7))

Geometry(c) == << c.x, c.y, c.w, c.h >>

IsRect(c) == c.kind = "rect"

IsQueueRect(c) == c.kind = "rect" /\ c.src = "queue"

IsLiveRect(c) == c.kind = "rect" /\ c.src = "live"

\* the rectangle fill calls issued so far
RectCalls == SelectSeq(calls, IsRect)

RectGeometry == [i \in 1..Len(RectCalls) |-> Geometry(RectCalls[i])]

\* position in calls of the last canvas clear (0 if none)
LastClear ==
    IF \E i \in 1..Len(calls) : calls[i].kind = "clear"
    THEN CHOOSE i \in 1..Len(calls) :
            /\ calls[i].kind = "clear"
            /\ \A j \in (i + 1)..Len(calls) : calls[j].kind # "clear"
    ELSE 0

\* the calls of the frame cycle in progress
CycleCalls == SubSeq(calls, LastClear + 1, Len(calls))

CycleQueueCalls == SelectSeq(CycleCalls, IsQueueRect)

CycleLiveCalls == SelectSeq(CycleCalls, IsLiveRect)

\* number of frame cycles begun
Cycles == Cardinality({ i \in 1..Len(calls) : calls[i].kind = "clear" })

InPass == pc \in { "preroll", "idle" }

InCycle == pc \in { "live", "frame_end" }

Played == pc \in { "decoded", "exited" } /\ valid_vid

\* the queue of the cycle in progress has been flushed, or was empty
Flushed == queued_rectangles[0].x = EMPTY_SLOT

---------------------------------------------------------------------------
(* C1: for an accepted stream whose frames are whole, the rectangle fill
   calls of a finished playback are exactly the stream's records, in stream
   order, whatever the timing of the passes. *)
C1_StreamOrder ==
    (Played /\ WholeFrames) => RectGeometry = ExpectedFills

(* C2: a pass ended by budget expiry with 1 or 2 components captured leaves
   no trace: the flush that follows issues one fill call per complete
   rectangle of the pass and none for the incomplete one. *)
C2_AtomicRectangle ==
    (InCycle /\ after_pass /\ WholeFrames
        /\ pnf_rect_data_index \in { 1, 2 } /\ Flushed)
        => Len(CycleQueueCalls) = rect_queue_index

(* C3: a single-frame stream of N records whose pre-roll reached the marker
   or filled the queue is played with exactly N rectangle fill calls:
   min(N, 32) issued by the queue flush and max(N - 32, 0) by the live
   decoder. *)
SingleFrame ==
    /\ Len(video) >= FIRST_DATA_INDEX + 1
    /\ (Len(video) - FIRST_DATA_INDEX - 1) % 4 = 0
    /\ ByteAt(FIRST_DATA_INDEX - 1) = FRAME_MARK
    /\ ByteAt(Len(video) - 1) = END_MARK
    /\ \A i \in FIRST_DATA_INDEX..(Len(video) - 2) :
          ByteAt(i) # END_MARK /\ ByteAt(i) # FRAME_MARK

RecordCount == (Len(video) - FIRST_DATA_INDEX - 1) \div 4

C3_SingleFrameCount ==
    (Played /\ SingleFrame /\ (queue_full \/ end_of_frame))
        => /\ Len(SelectSeq(calls, IsQueueRect)) = Min(RecordCount, 32)
           /\ Len(SelectSeq(calls, IsLiveRect)) =
                 IF RecordCount > 32 THEN RecordCount - 32 ELSE 0
           /\ Len(RectCalls) = RecordCount

C3_Witness ==
    /\ Played /\ SingleFrame /\ queue_full
    /\ RecordCount > 32
    /\ Len(RectCalls) = RecordCount

(* C4: the fill call for a complete raw record (x, y, x2, y2) at scale s is
   fill(x*s + 40, y*s, w, h), w = |x2 - x|*s or s when x = x2, h likewise,
   on the queue path and on the live path alike; no rectangle fill call has
   width or height 0. *)
C4_FillCall ==
    /\ \A i \in 1..Len(calls) :
          IsRect(calls[i]) => calls[i].w > 0 /\ calls[i].h > 0
    /\ (/\ pc = "live"
        /\ bd_rect_data_index = 0
        /\ last_data_index >= cycle_start + 4
        /\ last_data_index <= Len(video))
          => /\ IsLiveRect(calls[Len(calls)])
             /\ Geometry(calls[Len(calls)]) = ExpectedAt(last_data_index - 4)
    /\ (/\ InCycle /\ after_pass /\ Flushed
        /\ pass_start + 4 * rect_queue_index <= Len(video))
          => \A i \in 1..rect_queue_index :
                /\ i <= Len(CycleQueueCalls)
                /\ Geometry(CycleQueueCalls[i]) =
                      ExpectedAt(pass_start + 4 * (i - 1))

C4_Witness ==
    /\ InCycle /\ after_pass /\ Flushed
    /\ rect_queue_index = 1
    /\ video_scale_factor = MAX_SCALE
    /\ ByteAt(pass_start) = ByteAt(pass_start + 2)
    /\ ByteAt(pass_start + 1) > ByteAt(pass_start + 3)
    /\ Geometry(CycleQueueCalls[1]) =
          << VIEWPORT_OFFSET + 6 * ByteAt(pass_start), 6 * ByteAt(pass_start + 1),
             6, 6 * (ByteAt(pass_start + 1) - ByteAt(pass_start + 3)) >>

(* C5: a pass queues at most 32 rectangles and writes no slot past index 31;
   once the 32nd is complete the pass reads no further byte, the cursor
   stays on the first byte of the 33rd record, and the 33rd and later
   records of the frame are drawn by the live decoder. *)
C5_QueueCapacity ==
    /\ DOMAIN queued_rectangles = 0..(RECTANGLE_QUEUE_COUNT - 1)
    /\ rect_queue_index <= RECTANGLE_QUEUE_COUNT
    /\ (InPass /\ queue_full)
          => /\ rect_queue_index = RECTANGLE_QUEUE_COUNT
             /\ pnf_rect_data_index = 0
             /\ last_data_index = pass_start + 4 * RECTANGLE_QUEUE_COUNT
    /\ (after_pass /\ queue_full /\ pc \in { "begin_decode", "cycle" })
          => last_data_index = pass_start + 4 * RECTANGLE_QUEUE_COUNT
    /\ (after_pass /\ queue_full /\ InCycle /\ Flushed)
          => /\ Len(CycleQueueCalls) = RECTANGLE_QUEUE_COUNT
             /\ Len(CycleLiveCalls) =
                   (last_data_index - pass_start) \div 4 - RECTANGLE_QUEUE_COUNT
             /\ \A j \in 1..Len(CycleLiveCalls) :
                   Geometry(CycleLiveCalls[j]) =
                      ExpectedAt(pass_start + 4 * (RECTANGLE_QUEUE_COUNT + j - 1))

C5_Witness ==
    /\ pc = "frame_end" /\ after_pass /\ queue_full
    /\ Len(CycleQueueCalls) = RECTANGLE_QUEUE_COUNT
    /\ Len(CycleLiveCalls) >= 1

(* C6: the number of frame cycles played is 1 plus the number of 0xFF bytes
   between index 9 and the first 0xFE at index >= 9, and playback ends with
   the cursor on that 0xFE. *)
FrameMarksBeforeEnd ==
    Cardinality({ i \in FIRST_DATA_INDEX..(FirstEnd - 1) : ByteAt(i) = FRAME_MARK })

C6_CycleCount ==
    Played => /\ HasEnd
              /\ Cycles = 1 + FrameMarksBeforeEnd
              /\ last_data_index = FirstEnd

\* the same count for the accepted videos that have a byte at index 9
CycleCountWithBody ==
    (Played /\ HasEnd) => /\ Cycles = 1 + FrameMarksBeforeEnd
                          /\ last_data_index = FirstEnd

(* C7: retrieve_data_from_video returns true exactly when bytes 0..4 are
   "84VID", byte 5 is in 1..63, byte 6 is 1, byte 7 is in 1..6 and the last
   byte is 0xFE. *)
FiveConditions ==
    /\ SubSeq(video, 1, 5) = << 56, 52, 86, 73, 68 >>
    /\ ByteAt(5) \in 1..63
    /\ ByteAt(6) = 1
    /\ ByteAt(7) \in 1..6
    /\ ByteAt(Len(video) - 1) = 254

C7_ValidatorIff == pc # "main" => (valid_vid <=> FiveConditions)

C7_Witness ==
    /\ pc = "bad_prompt"
    /\ ~ valid_vid
    /\ SubSeq(video, 1, 5) = << 56, 52, 86, 73, 68 >>
    /\ ByteAt(5) = 63
    /\ ByteAt(6) = 1
    /\ ByteAt(7) = 6
    /\ ByteAt(Len(video) - 1) = FRAME_MARK

(* C8: after a failed validation nothing of playback happens (the queue is
   not initialised, no pass or decode step runs, nothing is drawn) and main
   returns -1; main returns 0 only after an accepted stream was played up
   to a 0xFE read by the live decoder. *)
C8_NoPlaybackOnFailure ==
    /\ (pc # "main" /\ ~ valid_vid)
          => /\ pc \in { "bad_prompt", "exited" }
             /\ queued_rectangles = ZeroQueue
             /\ calls = << >>
             /\ sleeps = << >>
             /\ last_data_index = 0
             /\ pass_start = 0
             /\ (pc = "exited" => exit_code = << -1 >>)
    /\ exit_code = << -1 >> => ~ valid_vid /\ pc = "exited"
    /\ exit_code = << 0 >> => /\ valid_vid /\ pc = "exited"
                              /\ data = END_MARK
                              /\ Cycles >= 1
    /\ pc = "exited" <=> exit_code \in { << 0 >>, << -1 >> }

C8_Witness ==
    /\ pc = "exited"
    /\ exit_code = << -1 >>
    /\ MagicOk(video)
    /\ calls = << >>

(* C9: playback of an accepted stream ends, and ends with the cursor on an
   end-of-stream byte of the stream. *)
C9_EndsOnEndMark ==
    Played => /\ last_data_index < Len(video)
              /\ ByteAt(last_data_index) = END_MARK

(* C10: a pass that has filled the queue or read a marker ends at that
   point, without waiting for the rest of its budget. *)
C10_EndsAtOnce == ~ (InPass /\ (queue_full \/ end_of_frame))

(* C10, amended: a pass that has filled the queue or read a marker reads no
   further byte and queues nothing more, but it keeps polling the clock:
   a pass returns exactly when its budget is used up (off_time <= 0). *)
C10_ReturnsOnExpiry ==
    [][ InPass =>
          /\ (queue_full \/ end_of_frame)
                => /\ last_data_index' <= last_data_index
                   /\ queued_rectangles' = queued_rectangles
                   /\ rect_queue_index' = rect_queue_index
                   /\ (pc' = pc => last_data_index' = last_data_index)
          /\ (pc' \notin { "preroll", "idle", "lost" })
                => elapsed' >= time_per_frame_ms
          /\ (pc' \in { "preroll", "idle" })
                => elapsed' < time_per_frame_ms ]_vars

C10_Witness ==
    /\ InPass /\ end_of_frame
    /\ elapsed > 0
    /\ elapsed < time_per_frame_ms
    /\ rect_queue_index >= 1

---------------------------------------------------------------------------
\* first byte of the rectangle a pass is assembling
PassRectStart == pass_start + 4 * rect_queue_index

\* the step is the last one of a pass: process_next_frame returns
PassReturns == InPass /\ pc' \in { "begin_decode", "cycle" }

(* C11, as stated: a pass ended by budget expiry with k components captured
   hands back the position reached minus k for k in 0..2, the first byte of
   the incomplete rectangle, and for k = 3 the position reached, which is
   one byte before the rectangle's last component. *)
C11_AsStated ==
    [][ (PassReturns /\ WholeFrames) =>
          LET k == pnf_rect_data_index'
              reached == PassRectStart' + k
              last_component == PassRectStart' + 3
          IN IF k = 3
             THEN /\ last_data_index' = reached
                  /\ last_data_index' = last_component - 1
             ELSE /\ last_data_index' = reached - k
                  /\ last_data_index' = PassRectStart' ]_vars

(* C11, amended: the position a pass has reached is its start plus the data
   bytes it consumed; on return with k components captured the cursor is the
   position reached minus k for k in 0..2, the first byte of the incomplete
   rectangle, and for k = 3 the position reached, which is the index of the
   rectangle's last component, three past its first byte; k is never
   anything but 0, 1, 2 or 3. *)
C11_RollbackAmount ==
    [][ InPass =>
          /\ last_data_index = PassRectStart + pnf_rect_data_index
          /\ PassReturns =>
                LET k == pnf_rect_data_index'
                    reached == PassRectStart' + k
                IN /\ k \in 0..3
                   /\ pass_start' = pass_start
                   /\ last_data_index' = IF k = 3 THEN reached ELSE reached - k
                   /\ k = 3 => last_data_index' = PassRectStart' + 3
                   /\ k # 3 => last_data_index' = PassRectStart' ]_vars

C11_Witness ==
    /\ pc \in { "begin_decode", "cycle" }
    /\ after_pass
    /\ pnf_rect_data_index = 3
    /\ last_data_index = PassRectStart + 3
    /\ last_data_index < Len(video)
    /\ ~ IsMarker(ByteAt(last_data_index))

---------------------------------------------------------------------------
\* the calls issued by the step, and those of them that come from the queue
StepCalls == SubSeq(calls', Len(calls) + 1, Len(calls'))

\* in the cycle in progress the queue calls come first: no queue call
\* follows a live call
QueueCallsFirst ==
    LET cc == CycleCalls
        nq == Len(SelectSeq(cc, IsQueueRect))
    IN \A i \in 1..Len(cc) : IsQueueRect(cc[i]) <=> i <= nq

(* C12: within a frame cycle the fill calls that come from the queue are all
   issued before any live fill call of the cycle, slot 0 first and in
   increasing slot order, and the queue is flushed at most once per cycle:
   a flush happens only while the cycle has issued no rectangle yet. *)
C12_QueueBeforeLive ==
    [][ LET sc == StepCalls
            sq == SelectSeq(sc, IsQueueRect)
        IN /\ QueueCallsFirst'
           /\ sq # << >> =>
                 /\ pc = "live"
                 /\ CycleCalls = << >>
                 /\ Len(sq) <= RECTANGLE_QUEUE_COUNT
                 /\ \A i \in 1..Len(sq) :
                       /\ sc[i] = sq[i]
                       /\ queued_rectangles[i - 1].x # EMPTY_SLOT
                       /\ sq[i] = QueueFillCall(queued_rectangles[i - 1],
                                                video_scale_factor)
                 /\ queued_rectangles'[0].x = EMPTY_SLOT ]_vars

C12_Witness ==
    /\ InCycle
    /\ Cycles = 2
    /\ Len(CycleQueueCalls) >= 1
    /\ Len(CycleLiveCalls) >= 1
    /\ WholeFrames

---------------------------------------------------------------------------
\* number of 0xFF bytes of the stream at indices 9..(i - 1)
FrameMarksBefore(i) ==
    Cardinality({ j \in FIRST_DATA_INDEX..(i - 1) :
                    j < Len(video) /\ ByteAt(j) = FRAME_MARK })

\* index i is a byte of the stream that lies in frame k: after the start
\* marker of frame k and not after its end marker
InFrame(i, k) ==
    /\ i >= FIRST_DATA_INDEX
    /\ i < Len(video)
    /\ FrameMarksBefore(i) = k - 1
    /\ \A j \in FIRST_DATA_INDEX..(i - 1) : ByteAt(j) # END_MARK

\* what C13 says of one step
StaysInFrame ==
    /\ (InPass /\ MayRead(queue_full, end_of_frame))
          => InFrame(last_data_index, Cycles + 1)
    /\ pc = "live" => InFrame(last_data_index, Cycles)
    /\ (InPass /\ last_data_index' > last_data_index)
          => /\ ~ IsMarker(ByteAt(last_data_index))
             /\ ~ end_of_frame
    /\ (InPass /\ end_of_frame) => last_data_index' <= last_data_index

(* C13: a pass never moves the cursor over a marker and reads nothing once
   it has read one; every byte a pass reads for the queue lies in the frame
   of the next canvas clear, and every byte the live decoder reads lies in
   the frame of the last canvas clear, between that frame's start marker and
   its end marker in the stream. *)
C13_WithinFrame == [][ StaysInFrame ]_vars

\* the same for the accepted streams that have a byte at index 9
WithinFrameWithBody == [][ HasEnd => StaysInFrame ]_vars

---------------------------------------------------------------------------
\* every slot of the queue is empty
QueueEmpty ==
    \A i \in 0..(RECTANGLE_QUEUE_COUNT - 1) : queued_rectangles[i].x = EMPTY_SLOT

(* C14: after the live decode of a frame, with remaining = 1000 / frame_rate
   (integer division) minus the elapsed milliseconds, an idle pass is started
   only if remaining > 0 and the frame did not end on 0xFE; the sleep is
   invoked only if remaining > 0 and the frame ended on 0xFE, at most once
   in the playback and with a duration > 0; if remaining <= 0 neither
   happens and the queue is empty when the next cycle starts. *)
C14_OffTime ==
    [][ LET remaining == (1000 \div video_fps) - elapsed'
        IN /\ pc' = "idle" =>
                 /\ pc = "frame_end" \/ pc = "idle"
                 /\ pc = "frame_end" => (remaining > 0 /\ data # END_MARK)
           /\ sleeps' # sleeps =>
                 /\ pc = "frame_end"
                 /\ remaining > 0
                 /\ data = END_MARK
                 /\ sleeps = << >>
                 /\ Len(sleeps') = 1
                 /\ sleeps'[1] > 0
                 /\ sleeps'[1] = remaining * 1000
                 /\ pc' = "decoded"
           /\ (pc = "frame_end" /\ remaining <= 0) =>
                 /\ pc' # "idle"
                 /\ sleeps' = sleeps
                 /\ pc' = "cycle" => QueueEmpty' ]_vars

C14_Witness ==
    /\ pc = "decoded"
    /\ Cycles = 2
    /\ sleeps = << 800000 >>
    /\ WholeFrames

---------------------------------------------------------------------------
IsBorder(c) == c.kind = "border"

IsClear(c) == c.kind = "clear"

\* number of border fill calls issued so far
BorderCalls == Len(SelectSeq(calls, IsBorder))

\* every rectangle of the cycle in progress comes after the cycle's clear,
\* with no other call in between
RectsAfterClear ==
    (\E i \in 1..Len(calls) : IsRect(calls[i]))
        => /\ LastClear > 0
           /\ \A j \in (LastClear + 1)..Len(calls) : IsRect(calls[j])

(* C15, as stated: in every frame cycle the canvas is cleared once and the
   two borders are redrawn once, so that after n cycles 2n border calls have
   been issued, and both precede the rectangles of the frame (streams of
   whole frames). *)
C15_AsStated ==
    (InCycle /\ WholeFrames) => /\ BorderCalls = 2 * Cycles
                                /\ RectsAfterClear

(* C15, amended: the two borders are drawn once in the whole playback, by
   begin_decode before its first cycle and before any other call; every
   frame cycle starts with exactly one canvas clear and nothing else clears
   the canvas; every rectangle fill call is issued by the live loop after
   the clear of its cycle. *)
C15_ClearOncePerCycle ==
    [][ LET sc == StepCalls
        IN /\ pc = "begin_decode" =>
                 /\ calls = << >>
                 /\ Len(sc) = 2
                 /\ IsBorder(sc[1]) /\ IsBorder(sc[2])
           /\ pc # "begin_decode" => \A i \in 1..Len(sc) : ~ IsBorder(sc[i])
           /\ pc = "cycle" =>
                 /\ Len(sc) = 1
                 /\ IsClear(sc[1])
                 /\ pc' = "live"
                 /\ BorderCalls = 2
           /\ pc # "cycle" => \A i \in 1..Len(sc) : ~ IsClear(sc[i])
           /\ (\E i \in 1..Len(sc) : IsRect(sc[i])) =>
                 /\ pc = "live"
                 /\ LastClear = Len(calls) - Len(CycleCalls)
                 /\ LastClear > 0
           /\ RectsAfterClear' ]_vars

C15_Witness ==
    /\ InCycle
    /\ Cycles = 2
    /\ BorderCalls = 2
    /\ Len(CycleCalls) >= 1
    /\ Len(RectCalls) > Len(CycleCalls)
    /\ WholeFrames

---------------------------------------------------------------------------
\* init_render_queue has run
AfterInit == valid_vid /\ pc \notin { "main", "play_prompt" }

\* a pass is running, or has returned and its queue is not flushed yet
PassQueueHeld == InPass \/ (after_pass /\ pc \in { "begin_decode", "cycle" })

(* C16: once init_render_queue has run the queue has its 32 slots and the
   slots with x # -1 form a prefix of them; a pass writes the slots in
   increasing order: the slots below rect_queue_index are written (x >= 0),
   the slot at rect_queue_index has an x exactly when a component of it was
   captured, and no slot above it is written. *)
C16_PrefixFilled ==
    AfterInit =>
        /\ DOMAIN queued_rectangles = 0..(RECTANGLE_QUEUE_COUNT - 1)
        /\ \A i \in 0..(RECTANGLE_QUEUE_COUNT - 2) :
              queued_rectangles[i].x = EMPTY_SLOT
                  => queued_rectangles[i + 1].x = EMPTY_SLOT
        /\ PassQueueHeld =>
              \A i \in 0..(RECTANGLE_QUEUE_COUNT - 1) :
                  /\ i < rect_queue_index => queued_rectangles[i].x >= 0
                  /\ i = rect_queue_index =>
                        (queued_rectangles[i].x # EMPTY_SLOT
                            <=> pnf_rect_data_index >= 1)
                  /\ i > rect_queue_index =>
                        queued_rectangles[i].x = EMPTY_SLOT

C16_Witness ==
    /\ InPass
    /\ rect_queue_index >= 1
    /\ rect_queue_index < RECTANGLE_QUEUE_COUNT - 1
    /\ pnf_rect_data_index >= 1
    /\ queued_rectangles[rect_queue_index - 1].x >= 0
    /\ queued_rectangles[rect_queue_index].x >= 0
    /\ queued_rectangles[rect_queue_index + 1].x = EMPTY_SLOT
    /\ WholeFrames

---------------------------------------------------------------------------
\* the slot a pass makes of the record whose first byte is at index p
SlotOf(p) ==
    Rect(ByteAt(p) * video_scale_factor, ByteAt(p + 1) * video_scale_factor,
         ByteAt(p + 2) * video_scale_factor, ByteAt(p + 3) * video_scale_factor)

\* the step starts a pass: process_next_frame is called
PassBegins == ~ InPass /\ pc' \in { "preroll", "idle" }

\* the step is an iteration of the live loop that flushes the queue
FlushStep ==
    pc = "live" /\ pc' \in { "live", "frame_end" }
        /\ queued_rectangles[0].x # EMPTY_SLOT

(* C17: every flush leaves all 32 slots empty and every pass, pre-roll or
   idle, begins with all 32 slots empty; during and after a pass slot i
   holds the i-th record the pass decoded, and a flush draws the slots the
   last pass wrote and no other. *)
C17_FreshQueue ==
    [][ /\ FlushStep => QueueEmpty'
        /\ PassBegins => QueueEmpty'
        /\ PassQueueHeld =>
              \A i \in 0..(rect_queue_index - 1) :
                  pass_start + 4 * i + 3 < Len(video)
                      => queued_rectangles[i] = SlotOf(pass_start + 4 * i)
        /\ FlushStep =>
              /\ after_pass
              /\ Len(SelectSeq(StepCalls, IsQueueRect)) =
                    rect_queue_index
                        + (IF pnf_rect_data_index >= 1 THEN 1 ELSE 0) ]_vars

C17_Witness ==
    /\ InCycle
    /\ Cycles = 2
    /\ rect_queue_index >= 1
    /\ Len(CycleQueueCalls) >= 1
    /\ QueueEmpty
    /\ WholeFrames

---------------------------------------------------------------------------
\* the next step reads video_bin at the cursor
ReadsNext == pc = "live" \/ (InPass /\ MayRead(queue_full, end_of_frame))

\* the cursor, once set, is an index of the stream at or after 9, and so is
\* every index read
CursorInStream ==
    /\ AfterInit =>
          (last_data_index >= FIRST_DATA_INDEX /\ last_data_index < video_bin_len)
    /\ (valid_vid /\ ReadsNext) =>
          (last_data_index >= FIRST_DATA_INDEX /\ last_data_index < video_bin_len)

(* C18: for every accepted stream every byte read during pre-roll and
   playback is at an index i with 9 <= i <= length - 1, and the cursor
   neither reaches the stream length nor falls below 9. *)
C18_ReadsInBounds == CursorInStream

\* the same for the accepted streams that have a byte at index 9
ReadsInBoundsWithBody == HasEnd => CursorInStream

---------------------------------------------------------------------------
\* index of the last 0xFF before index i: the start marker of i's frame
FrameStartOf(i) ==
    CHOOSE j \in (FIRST_DATA_INDEX - 1)..(i - 1) :
        /\ ByteAt(j) = FRAME_MARK
        /\ \A m \in (j + 1)..(i - 1) : ByteAt(m) # FRAME_MARK

\* the live decoder is at the first iteration of a frame cycle
AtCycleStart ==
    pc = "live" /\ bd_rect_data_index = 0 /\ last_data_index = cycle_start

(* C19: for an accepted stream of whole frames, when the live decoder starts
   a frame cycle with its component index at 0 the cursor is on a record
   boundary: the bytes between the frame's start marker and the cursor are a
   multiple of 4, wherever the preceding pass was interrupted. *)
C19_RecordBoundary ==
    (valid_vid /\ WholeFrames /\ AtCycleStart)
        => (last_data_index - FrameStartOf(last_data_index) - 1) % 4 = 0

\* the same when the preceding pass was not interrupted at 3 components
RecordBoundaryUnlessThree ==
    (valid_vid /\ WholeFrames /\ AtCycleStart
        /\ ~ (after_pass /\ pnf_rect_data_index = 3))
        => (last_data_index - FrameStartOf(last_data_index) - 1) % 4 = 0

---------------------------------------------------------------------------
(* C20: the cursor decreases only in the step that ends a pass by budget
   expiry; the decrease is at most 2, counted from the position the pass
   reached or from the cursor before the step, and leaves the cursor at or
   after the position the pass began at; the live decoder and the frame end
   never move the cursor backwards. *)
C20_CursorMonotone ==
    [][ /\ last_data_index' < last_data_index =>
              /\ PassReturns
              /\ elapsed' >= time_per_frame_ms
              /\ last_data_index - last_data_index' <= 2
        /\ PassReturns =>
              /\ (PassRectStart' + pnf_rect_data_index') - last_data_index'
                    \in 0..2
              /\ last_data_index' >= pass_start
        /\ pc \in { "begin_decode", "cycle", "live", "frame_end" } =>
              last_data_index' >= last_data_index ]_vars

C20_Witness ==
    /\ after_pass
    /\ pc \in { "begin_decode", "cycle" }
    /\ pnf_rect_data_index = 2
    /\ rect_queue_index >= 1
    /\ last_data_index = PassRectStart
    /\ last_data_index > pass_start
    /\ WholeFrames

====
